---- MODULE Spec2Model ----
(***************************************************************************)
(* Lattice Enthalpy learning tool (lattice_enthalpy_app.py).               *)
(*                                                                         *)
(* The script is a Streamlit page: every user interaction (a widget value  *)
(* change or one button click) runs the script top to bottom once.  A      *)
(* footer click that changes the section ends its run at st.rerun(), with  *)
(* the old page still on display, and the script runner then starts a      *)
(* second run; what the browser sends between the two is dropped.  One     *)
(* action of this model is one script run.  Widgets that a run does not    *)
(* render lose their value at the end of that run, also of a run ended by  *)
(* st.rerun(), and come back with their default.  A widget without a key   *)
(* is identified by its parameters: the sidebar selectbox is built with    *)
(* index=current_section, so after current_section has changed the next   *)
(* run builds another selectbox, which returns its default.                *)
(*                                                                         *)
(* Names are the source's; the emoji prefixes of the section names and the *)
(* subscript digits of the compound names are written in ASCII.            *)
(***************************************************************************)
EXTENDS Integers, Sequences, FiniteSets

VARIABLES
    current_section,    \* st.session_state.current_section
    born_haber_step,    \* st.session_state.born_haber_step
    sidebar_index,      \* index= the sidebar selectbox on display was built with
    rerun,              \* st.rerun() has ended a run and the next has not started
    exercise_type,      \* "Choose Exercise Type:" selectbox (section 3)
    quiz_choice,        \* radios q0, q1 of the Prediction Quiz (option index)
    user_answer,        \* number_input of the Calculation Practice
    rankings,           \* selectboxes rank_<compound> of the Ranking Exercise
    selected_compound,  \* "Select a compound to analyze:" selectbox (section 4)
    topic,              \* "Choose a topic:" selectbox (section 5)
    advanced,           \* the sliders, radio and selectbox below the topic
    out,                \* what the last script run displayed
    hist                \* the last two interactions and the indices before each

vars == <<current_section, born_haber_step, sidebar_index, rerun, exercise_type, quiz_choice,
          user_answer, rankings, selected_compound, topic, advanced,
          out, hist>>

----------------------------------------------------------------------------
(* Bounds of the explored inputs *)

\* half-width of the windows of numbers typed into the number_input
Probe == 12

\* centre of the second window of typed numbers
ProbeCentre == 385

\* the sliders are moved to their ends, their start and the multiples of this
\* many hundredths
SliderGrid == 50

----------------------------------------------------------------------------
(* Static data *)

sections ==
    << "Theory & Concepts", "Born-Haber Cycle", "Data Analysis",
       "Interactive Exercises", "Compound Examples", "Conceptual Questions" >>

\* Python list.index / list[i] are 0-based
IndexOf(seq, x) == (CHOOSE i \in 1..Len(seq) :
                       seq[i] = x /\ \A j \in 1..(i-1) : seq[j] # x) - 1

compound_data ==
    [ Compound                |-> << "LiCl", "NaCl", "Na2O", "K2O", "MgS", "CaCl2", "AlCl3" >>,
      Lattice_Enthalpy_kJ_mol |-> << 853, 786, 2478, 2238, 3406, 2255, 5492 >>,
      Cation_Charge           |-> << 1, 1, 1, 1, 2, 2, 3 >>,
      Anion_Charge            |-> << 1, 1, 2, 2, 2, 1, 1 >>,
      Cation_Radius_pm        |-> << 76, 102, 102, 138, 72, 100, 54 >>,
      Anion_Radius_pm         |-> << 181, 181, 140, 140, 184, 181, 181 >> ]

\* the lattice step added instead of subtracted
steps_lattice_added ==
    << [name |-> "Start",             energy |-> 0],
       [name |-> "Sublimation",       energy |-> 107],
       [name |-> "Dissociation",      energy |-> 107 + 122],
       [name |-> "Ionization",        energy |-> 107 + 122 + 496],
       [name |-> "Electron Affinity", energy |-> 107 + 122 + 496 - 349],
       [name |-> "Lattice Formation", energy |-> 107 + 122 + 496 - 349 + 786] >>

steps ==
    << [name |-> "Start",             energy |-> 0],
       [name |-> "Sublimation",       energy |-> 107],
       [name |-> "Dissociation",      energy |-> 107 + 122],
       [name |-> "Ionization",        energy |-> 107 + 122 + 496],
       [name |-> "Electron Affinity", energy |-> 107 + 122 + 496 - 349],
       [name |-> "Lattice Formation", energy |-> 107 + 122 + 496 - 349 - 786] >>

exercise_types == << "Prediction Quiz", "Calculation Practice", "Ranking Exercise" >>

\* the Prediction Quiz: number of options and index of the correct one
questions == << [options |-> 3, correct |-> 0], [options |-> 3, correct |-> 1] >>

compounds_to_rank == << "LiF", "NaCl", "MgO", "CaCl2" >>

rank_options == << 1, 2, 3, 4 >>

correct_order == << "MgO", "LiF", "CaCl2", "NaCl" >>

topics ==
    << "Factors Affecting Lattice Enthalpy", "Covalent Character in Ionic Compounds",
       "Polarization and Fajan's Rules", "Crystal Structures and Lattice Energy" >>

\* keys of `structures`, with coordination and Madelung constant (x 1000)
structures ==
    << [name |-> "Rock Salt (NaCl)",       coordination |-> "6:6", madelung |-> 1748],
       [name |-> "Cesium Chloride (CsCl)", coordination |-> "8:8", madelung |-> 1763],
       [name |-> "Fluorite (CaF2)",        coordination |-> "8:4", madelung |-> 2519],
       [name |-> "Zinc Blende (ZnS)",      coordination |-> "4:4", madelung |-> 1638] >>

\* options of the radio "Which cation causes more polarization?"
cations == << "Li+", "Cs+" >>

\* st.slider(label, 0.1, 2.0, 1.0), in hundredths
slider_min == 10
slider_max == 200
slider_value == 100

Range(seq) == { seq[i] : i \in 1..Len(seq) }

----------------------------------------------------------------------------
(* Python primitives used by the script *)

\* seq[i] of a Python list raises IndexError outside -len .. len-1
ValidIndex(seq, i) == i >= -Len(seq) /\ i < Len(seq)

\* seq[i] of a Python list: 0-based, negative indices count from the end
Subscript(seq, i) == IF i >= 0 THEN seq[i + 1] ELSE seq[Len(seq) + i + 1]

\* abs that forgets the sign
abs_identity(x) == x

abs(x) == IF x < 0 THEN -x ELSE x

\* insertion of x behind every element whose key is not larger: ties stay
\* in the order of arrival, which would be lost by inserting in front of them
RECURSIVE InsertTiesFirst(_, _, _)
InsertTiesFirst(s, x, key) ==
    IF s = << >> THEN << x >>
    ELSE IF key[x] <= key[Head(s)] THEN << x >> \o s
    ELSE << Head(s) >> \o InsertTiesFirst(Tail(s), x, key)

RECURSIVE Insert(_, _, _)
Insert(s, x, key) ==
    IF s = << >> THEN << x >>
    ELSE IF key[x] < key[Head(s)] THEN << x >> \o s
    ELSE << Head(s) >> \o Insert(Tail(s), x, key)

\* sorted(iterable, key=...): a stable sort by key
RECURSIVE sorted(_, _)
sorted(seq, key) ==
    IF seq = << >> THEN << >>
    ELSE Insert(sorted(SubSeq(seq, 1, Len(seq) - 1), key), seq[Len(seq)], key)

----------------------------------------------------------------------------
(* The handlers' computations *)

\* "Next Step" without the test against len(steps) - 1
BornHaberNextUnclamped(step) == step + 1

\* lines 164-166
BornHaberNext(step) == IF step < Len(steps) - 1 THEN step + 1 ELSE step

\* "Previous Step" that stops one step early
BornHaberPrevEarly(step) == IF step > 1 THEN step - 1 ELSE step

\* lines 168-170
BornHaberPrev(step) == IF step > 0 THEN step - 1 ELSE step

\* "Reset" that only steps back
BornHaberResetByOne(step) == IF step > 0 THEN step - 1 ELSE 0

\* lines 172-173
BornHaberReset(step) == 0

\* the sidebar selectbox that honours a pick whatever index= it is built with
NavigateAnyIndex(index, shown_index, pick) == Subscript(sections, pick)

\* line 35: the option returned by the sidebar selectbox built with index=
\* `index`, when the one on display was built with index= `shown_index` and
\* holds the option number `pick`: its value if it is the same widget, the
\* default sections[index] of a new widget otherwise
Navigate(index, shown_index, pick) ==
    IF index = shown_index
    THEN Subscript(sections, pick)
    ELSE Subscript(sections, index)

\* lines 567-568
PreviousSection(section) == IF section > 0 THEN section - 1 ELSE section

\* "Next Section" that wraps around to the first section
NextSectionWrap(section) == (section + 1) % Len(sections)

\* lines 572-573
NextSection(section) == IF section < Len(sections) - 1 THEN section + 1 ELSE section

\* line 175 and the four lines it feeds
CurrentStep(step) ==
    IF ~ValidIndex(steps, step)
    THEN [kind |-> "IndexError"]
    ELSE LET current_step == Subscript(steps, step)
         IN  [kind |-> "step", number |-> step + 1,
              name |-> current_step.name, energy |-> current_step.energy]

\* the sum with the formation enthalpy subtracted once instead of twice negated
correct_answer_plain_minus == 107 + 122 + 496 - 349 - 411

\* line 287
correct_answer == 107 + 122 + 496 - 349 - (-411)

\* a tolerance that lets the distance 10 pass
WithinToleranceInclusive(answer) == abs(answer - correct_answer) <= 10

\* line 288
WithinTolerance(answer) == abs(answer - correct_answer) < 10

\* lines 286-291
CheckCalculation(answer) ==
    [kind |-> "calculation", correct |-> WithinTolerance(answer),
     correct_answer |-> correct_answer]

\* lines 266-270
CheckAnswer(i, choice) ==
    [kind |-> "quiz", question |-> i,
     correct |-> (choice = Subscript(questions, i).correct)]

\* "Check Ranking" that also compares the two orderings and reports the result
CheckRankingWithVerdict(ranks) ==
    [kind |-> "ranking", user_order |-> sorted(compounds_to_rank, ranks),
     correct_order |-> correct_order,
     correct |-> (sorted(compounds_to_rank, ranks) = correct_order)]

\* lines 304-314
CheckRanking(ranks) ==
    [kind |-> "ranking", user_order |-> sorted(compounds_to_rank, ranks),
     correct_order |-> correct_order]

\* the wrong row: the one after the first match
RowAfter(name) ==
    LET i == IndexOf(compound_data.Compound, name) + 1
    IN  IF i < Len(compound_data.Compound) THEN i + 1 ELSE 1

\* df[df['Compound'] == name].iloc[0]: the first row with that name
Row(name) == IndexOf(compound_data.Compound, name) + 1

\* the charges added instead of multiplied
ChargeSum(cation, anion) == cation + anion

\* line 334
ChargeProduct(cation, anion) == cation * anion

\* lines 322-334
compound_info(name) ==
    LET r == Row(name)
        cation == compound_data.Cation_Charge[r]
        anion  == compound_data.Anion_Charge[r]
    IN  [kind |-> "compound",
         Compound |-> compound_data.Compound[r],
         Lattice_Enthalpy_kJ_mol |-> compound_data.Lattice_Enthalpy_kJ_mol[r],
         Cation_Charge |-> cation,
         Anion_Charge |-> anion,
         Cation_Radius_pm |-> compound_data.Cation_Radius_pm[r],
         Anion_Radius_pm |-> compound_data.Anion_Radius_pm[r],
         Charge_Product |-> ChargeProduct(cation, anion)]

\* lines 456-467: covalent_character = charge_density * anion_polarizability
\* * 50, here times 200 because the sliders are in hundredths
CovalentCharacter(charge_density, anion_polarizability) ==
    LET covalent_character_x200 == charge_density * anion_polarizability
    IN  [kind |-> "covalent",
         covalent_character_x200 |-> covalent_character_x200,
         verdict |-> IF covalent_character_x200 < 20 * 200
                     THEN "Predominantly ionic"
                     ELSE IF covalent_character_x200 < 50 * 200
                     THEN "Mixed ionic-covalent"
                     ELSE "Predominantly covalent"]

\* lines 500-504
QuickQuiz(q1) == [kind |-> "polarization", correct |-> (q1 = "Li+")]

\* lines 532-541
StructureInfo(selected_structure) ==
    LET info == CHOOSE r \in { structures[i] : i \in 1..Len(structures) } :
                    r.name = selected_structure
    IN  [kind |-> "structure", coordination |-> info.coordination,
         madelung |-> info.madelung]

\* lines 409-541: what section 5 displays for a topic
TopicPage(tp, adv) ==
    IF tp = "Covalent Character in Ionic Compounds"
    THEN CovalentCharacter(adv.charge_density, adv.anion_polarizability)
    ELSE IF tp = "Polarization and Fajan's Rules" THEN QuickQuiz(adv.q1)
    ELSE IF tp = "Crystal Structures and Lattice Energy"
    THEN StructureInfo(adv.selected_structure)
    ELSE [kind |-> "none"]

\* what a run displays for a section when no button of that section fired
Page(section, step, compound, tp, adv) ==
    IF section = 1 THEN CurrentStep(step)
    ELSE IF section = 4 THEN compound_info(compound)
    ELSE IF section = 5 THEN TopicPage(tp, adv)
    ELSE [kind |-> "none"]

----------------------------------------------------------------------------
(* Widget values *)

\* selectbox without index: the first option; number_input: value=0
DefaultExerciseType == exercise_types[1]
DefaultQuizChoice   == [i \in 0..(Len(questions) - 1) |-> 0]
DefaultAnswer       == 0
DefaultRankings     == [c \in Range(compounds_to_rank) |-> rank_options[1]]
DefaultCompound     == compound_data.Compound[1]
DefaultTopic        == topics[1]
DefaultAdvanced     ==
    [charge_density |-> slider_value, anion_polarizability |-> slider_value,
     q1 |-> cations[1], selected_structure |-> structures[1].name]

\* the positions the sliders are moved to
SliderInputs ==
    {slider_min, slider_value, slider_max}
      \cup { v \in slider_min..slider_max : v % SliderGrid = 0 }

\* the numbers typed into the number_input
AnswerInputs ==
    {DefaultAnswer}
      \cup ((ProbeCentre - Probe)..(ProbeCentre + Probe))
      \cup ((correct_answer - Probe)..(correct_answer + Probe))

\* The values the widgets hold after a run that ends in `section`, given the
\* values et, qc, ua, rk, sc, tp they would keep if rendered: a widget the
\* run does not reach starts again from its default.
Widgets(section, et, qc, ua, rk, sc, tp, adv) ==
    LET et2 == IF section = 3 THEN et ELSE DefaultExerciseType
    IN  /\ exercise_type' = et2
        /\ quiz_choice' = IF section = 3 /\ et2 = "Prediction Quiz"
                          THEN qc ELSE DefaultQuizChoice
        /\ user_answer' = IF section = 3 /\ et2 = "Calculation Practice"
                          THEN ua ELSE DefaultAnswer
        /\ rankings' = IF section = 3 /\ et2 = "Ranking Exercise"
                       THEN rk ELSE DefaultRankings
        /\ selected_compound' = IF section = 4 THEN sc ELSE DefaultCompound
        /\ topic' = IF section = 5 THEN tp ELSE DefaultTopic
        /\ advanced' =
             LET shown(t) == section = 5 /\ tp = t
             IN  [charge_density |->
                     IF shown("Covalent Character in Ionic Compounds")
                     THEN adv.charge_density ELSE DefaultAdvanced.charge_density,
                  anion_polarizability |->
                     IF shown("Covalent Character in Ionic Compounds")
                     THEN adv.anion_polarizability
                     ELSE DefaultAdvanced.anion_polarizability,
                  q1 |->
                     IF shown("Polarization and Fajan's Rules")
                     THEN adv.q1 ELSE DefaultAdvanced.q1,
                  selected_structure |->
                     IF shown("Crystal Structures and Lattice Energy")
                     THEN adv.selected_structure
                     ELSE DefaultAdvanced.selected_structure]

KeepWidgets(section) ==
    Widgets(section, exercise_type, quiz_choice, user_answer, rankings,
            selected_compound, topic, advanced)

\* history of the last two interactions, each with the indices it started from
Remember(event) ==
    LET h == Append(hist, [event |-> event, section |-> current_section,
                           step |-> born_haber_step])
    IN  hist' = IF Len(h) > 2 THEN Tail(h) ELSE h

----------------------------------------------------------------------------
(* Initial state: lines 14-19, first run on section 0 *)

Init ==
    /\ current_section = 0
    /\ born_haber_step = 0
    /\ sidebar_index = 0
    /\ rerun = FALSE
    /\ exercise_type = DefaultExerciseType
    /\ quiz_choice = DefaultQuizChoice
    /\ user_answer = DefaultAnswer
    /\ rankings = DefaultRankings
    /\ selected_compound = DefaultCompound
    /\ topic = DefaultTopic
    /\ advanced = DefaultAdvanced
    /\ out = Page(0, 0, DefaultCompound, DefaultTopic, DefaultAdvanced)
    /\ hist = << >>

----------------------------------------------------------------------------
(* Interactions *)

\* sidebar selectbox "Navigate to:", lines 35-36: the user picks option k in
\* the selectbox on display, which shows sections[current_section].  In every
\* other interaction lines 35-36 leave current_section as it is and the
\* selectbox on display afterwards is the one built with it.
SelectSection(k) ==
    /\ ~rerun
    /\ rerun' = FALSE
    /\ k # current_section
    /\ LET selected_section == Navigate(current_section, sidebar_index, k)
       IN  current_section' = IndexOf(sections, selected_section)
    /\ sidebar_index' = current_section
    /\ UNCHANGED born_haber_step
    /\ KeepWidgets(current_section')
    /\ out' = Page(current_section', born_haber_step', selected_compound', topic', advanced')
    /\ Remember("selected_section")

\* footer button "<- Previous Section", lines 566-569: the run of the click.
\* It renders the section it started on and ends at st.rerun() when the
\* section index has changed.
ClickPreviousSection ==
    /\ ~rerun
    /\ sidebar_index' = current_section
    /\ KeepWidgets(current_section)
    /\ out' = Page(current_section, born_haber_step, selected_compound', topic', advanced')
    /\ current_section' = PreviousSection(current_section)
    /\ rerun' = (current_section' # current_section)
    /\ UNCHANGED born_haber_step
    /\ Remember("previous_section")

\* "Next Section ->" that starts the Born-Haber cycle over when the section changes
ClickNextSectionResettingStep ==
    /\ ~rerun
    /\ sidebar_index' = current_section
    /\ KeepWidgets(current_section)
    /\ out' = Page(current_section, born_haber_step, selected_compound', topic', advanced')
    /\ current_section' = NextSection(current_section)
    /\ rerun' = (current_section' # current_section)
    /\ born_haber_step' = IF current_section' # current_section
                          THEN 0 ELSE born_haber_step
    /\ Remember("next_section")

\* footer button "Next Section ->", lines 571-574: the run of the click
ClickNextSection ==
    /\ ~rerun
    /\ sidebar_index' = current_section
    /\ KeepWidgets(current_section)
    /\ out' = Page(current_section, born_haber_step, selected_compound', topic', advanced')
    /\ current_section' = NextSection(current_section)
    /\ rerun' = (current_section' # current_section)
    /\ UNCHANGED born_haber_step
    /\ Remember("next_section")

\* button "Next Step", lines 164-166 and 175
ClickBornHaberNext ==
    /\ ~rerun
    /\ rerun' = FALSE
    /\ current_section = 1
    /\ born_haber_step' = BornHaberNext(born_haber_step)
    /\ UNCHANGED current_section
    /\ KeepWidgets(current_section)
    /\ out' = CurrentStep(born_haber_step')
    /\ sidebar_index' = current_section'
    /\ Remember("born_haber_next")

\* button "Previous Step", lines 168-170 and 175
ClickBornHaberPrev ==
    /\ ~rerun
    /\ rerun' = FALSE
    /\ current_section = 1
    /\ born_haber_step' = BornHaberPrev(born_haber_step)
    /\ UNCHANGED current_section
    /\ KeepWidgets(current_section)
    /\ out' = CurrentStep(born_haber_step')
    /\ sidebar_index' = current_section'
    /\ Remember("born_haber_prev")

\* button "Reset", lines 172-173 and 175
ClickBornHaberReset ==
    /\ ~rerun
    /\ rerun' = FALSE
    /\ current_section = 1
    /\ born_haber_step' = BornHaberReset(born_haber_step)
    /\ UNCHANGED current_section
    /\ KeepWidgets(current_section)
    /\ out' = CurrentStep(born_haber_step')
    /\ sidebar_index' = current_section'
    /\ Remember("born_haber_reset")

\* "Choose Exercise Type:" whose option index is stored as the section index
ChooseExerciseTypeAsSection(t) ==
    /\ ~rerun
    /\ rerun' = FALSE
    /\ current_section = 3
    /\ t # exercise_type
    /\ current_section' = IndexOf(exercise_types, t)
    /\ Widgets(current_section', t, quiz_choice, user_answer, rankings,
               selected_compound, topic, advanced)
    /\ UNCHANGED born_haber_step
    /\ out' = Page(current_section', born_haber_step, selected_compound', topic', advanced')
    /\ sidebar_index' = current_section'
    /\ Remember("exercise_type")

\* selectbox "Choose Exercise Type:", lines 241-242
ChooseExerciseType(t) ==
    /\ ~rerun
    /\ rerun' = FALSE
    /\ current_section = 3
    /\ t # exercise_type
    /\ Widgets(3, t, quiz_choice, user_answer, rankings, selected_compound, topic, advanced)
    /\ UNCHANGED <<current_section, born_haber_step>>
    /\ out' = Page(3, born_haber_step, selected_compound', topic', advanced')
    /\ sidebar_index' = current_section'
    /\ Remember("exercise_type")

\* radio "Select answer for Q<i+1>:", line 264
SelectQuizAnswer(i, choice) ==
    /\ ~rerun
    /\ rerun' = FALSE
    /\ current_section = 3
    /\ exercise_type = "Prediction Quiz"
    /\ choice # quiz_choice[i]
    /\ Widgets(3, exercise_type, [quiz_choice EXCEPT ![i] = choice],
               user_answer, rankings, selected_compound, topic, advanced)
    /\ UNCHANGED <<current_section, born_haber_step>>
    /\ out' = Page(3, born_haber_step, selected_compound', topic', advanced')
    /\ sidebar_index' = current_section'
    /\ Remember("answer")

\* button "Check Answer <i+1>", lines 266-270
ClickCheckAnswer(i) ==
    /\ ~rerun
    /\ rerun' = FALSE
    /\ current_section = 3
    /\ exercise_type = "Prediction Quiz"
    /\ KeepWidgets(3)
    /\ UNCHANGED <<current_section, born_haber_step>>
    /\ out' = CheckAnswer(i, quiz_choice[i])
    /\ sidebar_index' = current_section'
    /\ Remember("check_answer")

\* number_input "Enter the lattice enthalpy (kJ/mol):", line 284
EnterAnswer(u) ==
    /\ ~rerun
    /\ rerun' = FALSE
    /\ current_section = 3
    /\ exercise_type = "Calculation Practice"
    /\ u # user_answer
    /\ Widgets(3, exercise_type, quiz_choice, u, rankings, selected_compound, topic, advanced)
    /\ UNCHANGED <<current_section, born_haber_step>>
    /\ out' = Page(3, born_haber_step, selected_compound', topic', advanced')
    /\ sidebar_index' = current_section'
    /\ Remember("user_answer")

\* button "Check Calculation", lines 286-292
ClickCheckCalculation ==
    /\ ~rerun
    /\ rerun' = FALSE
    /\ current_section = 3
    /\ exercise_type = "Calculation Practice"
    /\ KeepWidgets(3)
    /\ UNCHANGED <<current_section, born_haber_step>>
    /\ out' = CheckCalculation(user_answer)
    /\ sidebar_index' = current_section'
    /\ Remember("check_calculation")

\* selectbox "Rank for <compound>:", lines 300-302
SelectRank(c, r) ==
    /\ ~rerun
    /\ rerun' = FALSE
    /\ current_section = 3
    /\ exercise_type = "Ranking Exercise"
    /\ r # rankings[c]
    /\ Widgets(3, exercise_type, quiz_choice, user_answer,
               [rankings EXCEPT ![c] = r], selected_compound, topic, advanced)
    /\ UNCHANGED <<current_section, born_haber_step>>
    /\ out' = Page(3, born_haber_step, selected_compound', topic', advanced')
    /\ sidebar_index' = current_section'
    /\ Remember("rankings")

\* button "Check Ranking", lines 304-314
ClickCheckRanking ==
    /\ ~rerun
    /\ rerun' = FALSE
    /\ current_section = 3
    /\ exercise_type = "Ranking Exercise"
    /\ KeepWidgets(3)
    /\ UNCHANGED <<current_section, born_haber_step>>
    /\ out' = CheckRanking(rankings)
    /\ sidebar_index' = current_section'
    /\ Remember("check_ranking")

\* selectbox "Select a compound to analyze:", lines 320-334
SelectCompound(c) ==
    /\ ~rerun
    /\ rerun' = FALSE
    /\ current_section = 4
    /\ c # selected_compound
    /\ Widgets(4, exercise_type, quiz_choice, user_answer, rankings, c, topic, advanced)
    /\ UNCHANGED <<current_section, born_haber_step>>
    /\ out' = Page(4, born_haber_step, selected_compound', topic', advanced')
    /\ sidebar_index' = current_section'
    /\ Remember("selected_compound")

\* selectbox "Choose a topic:", lines 402-406
ChooseTopic(t) ==
    /\ ~rerun
    /\ rerun' = FALSE
    /\ current_section = 5
    /\ t # topic
    /\ Widgets(5, exercise_type, quiz_choice, user_answer, rankings,
               selected_compound, t, advanced)
    /\ UNCHANGED <<current_section, born_haber_step>>
    /\ out' = Page(5, born_haber_step, selected_compound', topic', advanced')
    /\ sidebar_index' = current_section'
    /\ Remember("topic")

\* slider "Cation Charge Density", line 456
SlideChargeDensity(v) ==
    /\ ~rerun
    /\ rerun' = FALSE
    /\ current_section = 5
    /\ topic = "Covalent Character in Ionic Compounds"
    /\ v # advanced.charge_density
    /\ Widgets(5, exercise_type, quiz_choice, user_answer, rankings,
               selected_compound, topic, [advanced EXCEPT !.charge_density = v])
    /\ UNCHANGED <<current_section, born_haber_step>>
    /\ out' = Page(5, born_haber_step, selected_compound', topic', advanced')
    /\ sidebar_index' = current_section'
    /\ Remember("charge_density")

\* slider "Anion Polarizability", line 457
SlideAnionPolarizability(v) ==
    /\ ~rerun
    /\ rerun' = FALSE
    /\ current_section = 5
    /\ topic = "Covalent Character in Ionic Compounds"
    /\ v # advanced.anion_polarizability
    /\ Widgets(5, exercise_type, quiz_choice, user_answer, rankings,
               selected_compound, topic,
               [advanced EXCEPT !.anion_polarizability = v])
    /\ UNCHANGED <<current_section, born_haber_step>>
    /\ out' = Page(5, born_haber_step, selected_compound', topic', advanced')
    /\ sidebar_index' = current_section'
    /\ Remember("anion_polarizability")

\* radio "Which cation causes more polarization?", lines 500-504
SelectCation(c) ==
    /\ ~rerun
    /\ rerun' = FALSE
    /\ current_section = 5
    /\ topic = "Polarization and Fajan's Rules"
    /\ c # advanced.q1
    /\ Widgets(5, exercise_type, quiz_choice, user_answer, rankings,
               selected_compound, topic, [advanced EXCEPT !.q1 = c])
    /\ UNCHANGED <<current_section, born_haber_step>>
    /\ out' = Page(5, born_haber_step, selected_compound', topic', advanced')
    /\ sidebar_index' = current_section'
    /\ Remember("q1")

\* selectbox "Select crystal structure:", line 532
SelectStructure(name) ==
    /\ ~rerun
    /\ rerun' = FALSE
    /\ current_section = 5
    /\ topic = "Crystal Structures and Lattice Energy"
    /\ name # advanced.selected_structure
    /\ Widgets(5, exercise_type, quiz_choice, user_answer, rankings,
               selected_compound, topic,
               [advanced EXCEPT !.selected_structure = name])
    /\ UNCHANGED <<current_section, born_haber_step>>
    /\ out' = Page(5, born_haber_step, selected_compound', topic', advanced')
    /\ sidebar_index' = current_section'
    /\ Remember("selected_structure")

\* the run started by st.rerun(), lines 14-577: no widget has a new value
\* and no button is clicked; line 35 builds the selectbox with the new
\* index, the new section is rendered
Rerun ==
    /\ rerun
    /\ rerun' = FALSE
    /\ LET selected_section == Navigate(current_section, sidebar_index, sidebar_index)
       IN  current_section' = IndexOf(sections, selected_section)
    /\ sidebar_index' = current_section
    /\ UNCHANGED born_haber_step
    /\ KeepWidgets(current_section')
    /\ out' = Page(current_section', born_haber_step, selected_compound', topic', advanced')
    /\ UNCHANGED hist

\* The expanders of sections 0 and 5 open and close in the browser: they
\* start no script run and are no interaction of this model.

Next ==
    \/ \E k \in 0..(Len(sections) - 1) : SelectSection(k)
    \/ ClickPreviousSection
    \/ ClickNextSection
    \/ Rerun
    \/ ClickBornHaberNext
    \/ ClickBornHaberPrev
    \/ ClickBornHaberReset
    \/ \E t \in Range(exercise_types) : ChooseExerciseType(t)
    \/ \E i \in 0..(Len(questions) - 1) :
          \E choice \in 0..(Subscript(questions, i).options - 1) :
             SelectQuizAnswer(i, choice)
    \/ \E i \in 0..(Len(questions) - 1) : ClickCheckAnswer(i)
    \/ \E u \in AnswerInputs : EnterAnswer(u)
    \/ ClickCheckCalculation
    \/ \E c \in Range(compounds_to_rank) :
          \E r \in Range(rank_options) : SelectRank(c, r)
    \/ ClickCheckRanking
    \/ \E c \in Range(compound_data.Compound) : SelectCompound(c)
    \/ \E t \in Range(topics) : ChooseTopic(t)
    \/ \E v \in SliderInputs : SlideChargeDensity(v)
    \/ \E v \in SliderInputs : SlideAnionPolarizability(v)
    \/ \E c \in Range(cations) : SelectCation(c)
    \/ \E i \in 1..Len(structures) : SelectStructure(structures[i].name)

Spec == Init /\ [][Next]_vars

TypeOK ==
    /\ current_section \in 0..(Len(sections) - 1)
    /\ born_haber_step \in 0..(Len(steps) - 1)
    /\ sidebar_index \in 0..(Len(sections) - 1)
    /\ rerun \in BOOLEAN
    /\ exercise_type \in Range(exercise_types)
    /\ user_answer \in AnswerInputs
    /\ rankings \in [Range(compounds_to_rank) -> Range(rank_options)]
    /\ selected_compound \in Range(compound_data.Compound)
    /\ topic \in Range(topics)
    /\ advanced.charge_density \in SliderInputs
    /\ advanced.anion_polarizability \in SliderInputs
    /\ advanced.q1 \in Range(cations)
    /\ Len(hist) <= 2

----------------------------------------------------------------------------
(* Properties *)

LastInteraction == hist[Len(hist)]

\* C1: in every reachable state current_section is in 0..5 and
\* born_haber_step is in 0..5, so steps[born_haber_step] never raises
\* IndexError.
IndicesInRange ==
    /\ current_section \in 0..5
    /\ born_haber_step \in 0..5
    /\ born_haber_step >= 0 /\ born_haber_step < Len(steps)
    /\ out.kind # "IndexError"
    /\ current_section = 1 /\ ~rerun => out.kind = "step"

\* "Next Step" clicked on the last step
IndicesInRangeWitness ==
    /\ hist # << >>
    /\ LastInteraction.event = "born_haber_next"
    /\ LastInteraction.step = 5
    /\ born_haber_step = 5
    /\ out.kind = "step"

\* C2: Next then Previous gives back the index it started from, except from
\* 5, where it gives 4; Previous then Next gives back the index it started
\* from, except from 0, where it gives 1.  For steps and for sections.
AdvanceRetreatRoundTrip ==
    Len(hist) = 2 =>
      LET first == hist[1].event
          second == hist[2].event
          step0 == hist[1].step
          section0 == hist[1].section
      IN  /\ first = "born_haber_next" /\ second = "born_haber_prev"
               => born_haber_step = IF step0 = 5 THEN 4 ELSE step0
          /\ first = "born_haber_prev" /\ second = "born_haber_next"
               => born_haber_step = IF step0 = 0 THEN 1 ELSE step0
          /\ first = "next_section" /\ second = "previous_section"
               => current_section = IF section0 = 5 THEN 4 ELSE section0
          /\ first = "previous_section" /\ second = "next_section"
               => current_section = IF section0 = 0 THEN 1 ELSE section0

\* Next Step then Previous Step from step 0
AdvanceRetreatRoundTripWitness ==
    /\ Len(hist) = 2
    /\ hist[1].event = "born_haber_next"
    /\ hist[2].event = "born_haber_prev"
    /\ hist[1].step = 0
    /\ born_haber_step = 0

\* C3: the cumulative energies of the six steps are 0, 107, 229, 725, 376,
\* -410: the first is 0 and each later one is the one before plus the next
\* of +107, +122, +496, -349, -786; the step shown is the one of the index.
CumulativeEnergies ==
    LET energies == [i \in 1..Len(steps) |-> steps[i].energy]
        deltas == << 107, 122, 496, -349, -786 >>
    IN  /\ energies = << 0, 107, 229, 725, 376, -410 >>
        /\ energies[1] = 0
        /\ \A k \in 1..5 : energies[k + 1] = energies[k] + deltas[k]
        /\ out.kind = "step" =>
             out.energy = << 0, 107, 229, 725, 376, -410 >>[born_haber_step + 1]

\* the last step is on display
CumulativeEnergiesWitness ==
    /\ current_section = 1
    /\ born_haber_step = 5
    /\ out.kind = "step"
    /\ out.energy = -410

\* C4 as stated: the correct answer computed by Check Calculation is 385.
CorrectAnswerIs385 ==
    out.kind = "calculation" => out.correct_answer = 385

\* C4 amended: the correct answer computed by Check Calculation is 787.
CorrectAnswerIs787 ==
    out.kind = "calculation" => out.correct_answer = 787

\* Check Calculation clicked with the answer 787 typed in
CorrectAnswerWitness ==
    /\ out.kind = "calculation"
    /\ user_answer = 787
    /\ out.correct

\* C5 as stated: Check Calculation reports Correct for the integers in
\* 375..395 and Incorrect for all others.
CorrectRange375To395 ==
    out.kind = "calculation" => (out.correct <=> user_answer \in 375..395)

\* C5 amended: Check Calculation reports Correct for the integers in
\* 778..796 and Incorrect for all others.
CorrectRange778To796 ==
    out.kind = "calculation" => (out.correct <=> user_answer \in 778..796)

\* the lowest accepted answer
CorrectRangeWitness ==
    /\ out.kind = "calculation"
    /\ user_answer = 778
    /\ out.correct

\* C6: the user's ordering is a permutation of the four names in
\* non-decreasing order of rank, equal ranks in the order LiF, NaCl, MgO,
\* CaCl2; the ranks MgO 1, LiF 2, CaCl2 3, NaCl 4 give MgO, LiF, CaCl2, NaCl.
RankingOrder ==
    out.kind = "ranking" =>
      LET o == out.user_order
          names == << "LiF", "NaCl", "MgO", "CaCl2" >>
          pos(c) == CHOOSE i \in 1..4 : names[i] = c
      IN  /\ Len(o) = 4
          /\ { o[i] : i \in 1..4 } = { "LiF", "NaCl", "MgO", "CaCl2" }
          /\ \A i \in 1..3 :
               \/ rankings[o[i]] < rankings[o[i + 1]]
               \/ rankings[o[i]] = rankings[o[i + 1]] /\ pos(o[i]) < pos(o[i + 1])
          /\ rankings = [MgO |-> 1, LiF |-> 2, CaCl2 |-> 3, NaCl |-> 4]
               => o = << "MgO", "LiF", "CaCl2", "NaCl" >>

\* Check Ranking clicked with the ranks MgO 1, LiF 2, CaCl2 3, NaCl 4
RankingOrderWitness ==
    /\ out.kind = "ranking"
    /\ rankings = [MgO |-> 1, LiF |-> 2, CaCl2 |-> 3, NaCl |-> 4]
    /\ out.user_order = << "MgO", "LiF", "CaCl2", "NaCl" >>

\* C7: the lookup by name shows, for each of the seven names, the one record
\* of that name, with charge product cation charge times anion charge; for
\* AlCl3 the lattice enthalpy 5492 and the charge product 3.
CompoundLookup ==
    LET table == { << "LiCl", 853, 1, 1, 76, 181 >>,
                   << "NaCl", 786, 1, 1, 102, 181 >>,
                   << "Na2O", 2478, 1, 2, 102, 140 >>,
                   << "K2O", 2238, 1, 2, 138, 140 >>,
                   << "MgS", 3406, 2, 2, 72, 184 >>,
                   << "CaCl2", 2255, 2, 1, 100, 181 >>,
                   << "AlCl3", 5492, 3, 1, 54, 181 >> }
    IN  /\ Cardinality(Range(compound_data.Compound)) = 7
        /\ Range(compound_data.Compound) = { row[1] : row \in table }
        /\ current_section = 4 /\ ~rerun =>
             /\ out.kind = "compound"
             /\ \E row \in table :
                  /\ row[1] = selected_compound
                  /\ out.Compound = row[1]
                  /\ out.Lattice_Enthalpy_kJ_mol = row[2]
                  /\ out.Cation_Charge = row[3]
                  /\ out.Anion_Charge = row[4]
                  /\ out.Cation_Radius_pm = row[5]
                  /\ out.Anion_Radius_pm = row[6]
                  /\ out.Charge_Product = row[3] * row[4]
             /\ selected_compound = "AlCl3" =>
                  /\ out.Lattice_Enthalpy_kJ_mol = 5492
                  /\ out.Charge_Product = 3

\* AlCl3 selected
CompoundLookupWitness ==
    /\ current_section = 4
    /\ selected_compound = "AlCl3"
    /\ out.kind = "compound"
    /\ out.Lattice_Enthalpy_kJ_mol = 5492
    /\ out.Charge_Product = 3

\* C8: a Next click adds exactly 1 to its index below 5 and leaves it at 5;
\* a Previous click subtracts exactly 1 above 0 and leaves it at 0; for the
\* step index and for the section index, the other index untouched, and no
\* click ends in an error.
ClickMovesByOne ==
    hist # << >> =>
      LET e == LastInteraction
      IN  /\ e.event = "born_haber_next" =>
               /\ born_haber_step = IF e.step < 5 THEN e.step + 1 ELSE e.step
               /\ current_section = e.section
          /\ e.event = "born_haber_prev" =>
               /\ born_haber_step = IF e.step > 0 THEN e.step - 1 ELSE e.step
               /\ current_section = e.section
          /\ e.event = "next_section" =>
               /\ current_section = IF e.section < 5 THEN e.section + 1 ELSE e.section
               /\ born_haber_step = e.step
          /\ e.event = "previous_section" =>
               /\ current_section = IF e.section > 0 THEN e.section - 1 ELSE e.section
               /\ born_haber_step = e.step
          /\ e.event \in {"born_haber_next", "born_haber_prev",
                          "next_section", "previous_section"} =>
               out.kind # "IndexError"

\* Next Section clicked on the last section
ClickMovesByOneWitness ==
    /\ hist # << >>
    /\ LastInteraction.event = "next_section"
    /\ LastInteraction.section = 5
    /\ current_section = 5

\* C9: Reset sets the step index to 0 from every step index, leaves the
\* section index alone, and a second Reset changes nothing.
ResetToZero ==
    /\ hist # << >> /\ LastInteraction.event = "born_haber_reset" =>
         /\ born_haber_step = 0
         /\ current_section = LastInteraction.section
         /\ out.kind = "step" /\ out.number = 1
    /\ Len(hist) = 2 /\ hist[1].event = "born_haber_reset"
                     /\ hist[2].event = "born_haber_reset" =>
         /\ born_haber_step = hist[2].step
         /\ current_section = hist[2].section

\* Reset clicked on the last step
ResetToZeroWitness ==
    /\ hist # << >>
    /\ LastInteraction.event = "born_haber_reset"
    /\ LastInteraction.step = 5
    /\ born_haber_step = 0

\* C10: Check Calculation reports Correct exactly when the answer is less
\* than 10 away from the correct value on either side; an answer exactly 10
\* away is reported Incorrect.
StrictTolerance ==
    out.kind = "calculation" =>
      LET d == user_answer - out.correct_answer
      IN  /\ out.correct <=> (d < 10 /\ -d < 10)
          /\ (d = 10 \/ d = -10) => ~out.correct

\* an answer exactly 10 above the correct value, rejected
StrictToleranceWitness ==
    /\ out.kind = "calculation"
    /\ user_answer = out.correct_answer + 10
    /\ ~out.correct

\* C11 as stated: no interaction other than a click on Previous Section,
\* Next Section, Next Step, Previous Step or Reset changes either index.
OnlyButtonsChangeIndices ==
    hist # << >> =>
      LET e == LastInteraction
      IN  e.event \notin {"previous_section", "next_section", "born_haber_next",
                          "born_haber_prev", "born_haber_reset"} =>
            /\ current_section = e.section
            /\ born_haber_step = e.step

\* C11 amended: no interaction other than one of those five clicks or a
\* selection in the sidebar changes either index.
OnlyNavigationChangesIndices ==
    hist # << >> =>
      LET e == LastInteraction
      IN  e.event \notin {"previous_section", "next_section", "born_haber_next",
                          "born_haber_prev", "born_haber_reset",
                          "selected_section"} =>
            /\ current_section = e.section
            /\ born_haber_step = e.step

\* a number typed into the exercise after the last step was reached
OnlyNavigationChangesIndicesWitness ==
    /\ hist # << >>
    /\ LastInteraction.event = "user_answer"
    /\ LastInteraction.section = 3
    /\ LastInteraction.step = 5
    /\ current_section = 3
    /\ born_haber_step = 5

\* C12: Check Ranking displays the user's ordering and the fixed ordering
\* MgO, LiF, CaCl2, NaCl and nothing else: no verdict, whether or not the two
\* orderings are equal.
NoRankingVerdict ==
    out.kind = "ranking" =>
      /\ DOMAIN out = {"kind", "user_order", "correct_order"}
      /\ out.correct_order = << "MgO", "LiF", "CaCl2", "NaCl" >>
      /\ Len(out.user_order) = 4
      /\ \A i \in 1..4 : out.user_order[i] \in {"LiF", "NaCl", "MgO", "CaCl2"}

\* Check Ranking clicked with an ordering that is not the correct one
NoRankingVerdictWitness ==
    /\ out.kind = "ranking"
    /\ hist # << >>
    /\ LastInteraction.event = "check_ranking"
    /\ out.user_order # out.correct_order

\* C13: the step index changes only on section 1: a sidebar selection, a
\* Previous/Next Section click and every interaction on another section
\* leave it as it was, so leaving section 1 and coming back shows the step
\* that was current before.
StepChangesOnlyOnBornHaberPage ==
    /\ hist # << >> =>
         LET e == LastInteraction
         IN  /\ e.section # 1 => born_haber_step = e.step
             /\ e.event \in {"selected_section", "previous_section", "next_section"}
                  => born_haber_step = e.step
             /\ born_haber_step # e.step => e.section = 1 /\ current_section = 1
    /\ Len(hist) = 2 /\ hist[1].section = 1 /\ hist[2].section # 1
                     /\ current_section = 1 /\ ~rerun =>
         /\ born_haber_step = hist[1].step
         /\ out.kind = "step"
         /\ out.number = hist[1].step + 1

\* section 1 left at step 3 with Next Section and entered again with
\* Previous Section
StepChangesOnlyOnBornHaberPageWitness ==
    /\ Len(hist) = 2
    /\ hist[1].event = "next_section" /\ hist[1].section = 1 /\ hist[1].step = 3
    /\ hist[2].event = "previous_section" /\ hist[2].section = 2
    /\ current_section = 1
    /\ born_haber_step = 3
    /\ out.kind = "step" /\ out.number = 4

====
